---------------------------- MODULE Spec2Model ----------------------------
(***************************************************************************)
(* The macOS application shim of servoshell, src/src/platform/macos/app.rs: *)
(* the delegate class registered by register(), the handlers it installs,  *)
(* and the App controller (load, state_changed, get_events,                *)
(* create_window).                                                         *)
(*                                                                         *)
(* Everything runs on one thread: a handler, or a method of App, runs to   *)
(* completion before the next one starts, so each is one action.           *)
(* A panic ends the process (proc = "aborted"); nothing runs afterwards.    *)
(*                                                                         *)
(* Spec is the delegate, the controller and its event queue under every    *)
(* interleaving of the handlers with load, state_changed and get_events;   *)
(* SpecWindow is create_window beside a controller whose queue fills;      *)
(* SpecRun is run(): each statement of its loop is one action, the         *)
(* handlers run inside finishLaunching and sendEvent, and the callback     *)
(* calls get_events.                                                       *)
(***************************************************************************)
EXTENDS Integers, Sequences, FiniteSets, TLC

\* ---------------------------------------------------------------- bounds
\* events pushed by the handlers, over all delegates
MaxPushes == 3
\* top-level instances in one nib file
MaxInstances == 3
\* native events the window server posts to the application
MaxNative == 3

VARIABLES
    proc,       \* "alive" | "aborted" (a panic was raised)
    registry,   \* Objective-C class registry: class name -> its declaration
    apps,       \* the App values returned by load(), in order: [nsapp |-> i],
                \* i the instance of the App.nib copy that load() instantiated
    delegate,   \* native state: delegate[n] is the delegate that setDelegate:
                \* attached to the nsapp of apps[n]
    objs,       \* the delegates allocated so far: their ivars event_queue, state
    policy,     \* how many nsapps had their activation policy set to Regular
    activated,  \* the running application was activated (activateWithOptions)
    logged,      \* the class names the last create_native_window() logged
    ret,        \* the last call and what it returned to its caller
    pushed,     \* history: per delegate, every event its handlers pushed
    drained,    \* history: per delegate, the get_events() results, concatenated
    nsqueue,    \* the native events posted to the application, not yet dequeued
    rl          \* run(): where it is (pc), the nsevent in hand, and the
                \* history of the iteration under way

\* what run() adds to the state
runvars == <<nsqueue, rl>>

vars == <<proc, registry, apps, delegate, objs, policy, activated, logged,
          ret, pushed, drained, nsqueue, rl>>

\* ------------------------------------------------------------ vocabulary
\* Option: None, or Some(v)
None == <<>>

Some(v) == <<v>>

Ok(v) == [ok |-> TRUE, val |-> v]

Err(msg) == [ok |-> FALSE, err |-> msg]

\* what a call that returns a Result gives when it panics instead: no value
Panicked == [ok |-> FALSE, panicked |-> TRUE]

\* app::AppCommand, as used in record_command
ClearHistory == "ClearHistory"

ToggleOptionDarkTheme == "ToggleOptionDarkTheme"

AppCommand == {ClearHistory, ToggleOptionDarkTheme}

\* app::AppEvent, as used by the handlers
DidFinishLaunching == <<"DidFinishLaunching">>

DidChangeScreenParameters == <<"DidChangeScreenParameters">>

WillTerminate == <<"WillTerminate">>

DoCommand(cmd) == <<"DoCommand", cmd>>

AppEvent == {DidFinishLaunching, DidChangeScreenParameters, WillTerminate}
            \cup {DoCommand(c) : c \in AppCommand}

\* the action selectors a user-interface item may carry: the two the
\* handlers compare against, and one they do not know
ActionSelectors == {"shellClearHistory:", "shellToggleOptionDarkTheme:",
                    "shellOther:"}

YES == "YES"

\* the classes an instance of App.nib, and of Window.nib, may have: the
\* ones the lookups ask for, and one they do not
AppNibClasses == {"NSApplication", "NSMenu"}

WindowNibClasses == {"NSShellWindow", "NSPopover", "NSView"}

\* the loader's failures
NibErrors == {"ResourceNotFound", "LoadFailed"}

SeqsUpTo(S, n) == UNION {[1..k -> S] : k \in 0..n}

\* what utils::load_nib(name) can return: an error, or the classes of the
\* top-level instances in file order (instance k is the k-th of them)
load_nib(name) ==
    {Err(e) : e \in NibErrors}
    \cup {Ok(is) : is \in SeqsUpTo(IF name = "App.nib" THEN AppNibClasses
                                   ELSE WindowNibClasses, MaxInstances)}

\* utils::id_is_instance_of(i, name), i the k-th instance of the file
id_is_instance_of(instances, k, name) == instances[k] = name

\* utils::get_event_queue(this): the Vec the ivar event_queue points to
get_event_queue(this) == objs[this].event_queue

DelegateClass == "NSShellApplicationDelegate"

TotalPushed == LET Sum[k \in 0..Len(pushed)] ==
                      IF k = 0 THEN 0 ELSE Sum[k - 1] + Len(pushed[k])
               IN  Sum[Len(pushed)]

\* ------------------------------------------------------------- register
\* the methods register() adds to the class: selector -> extern fn
DelegateMethods ==
    ("applicationDidFinishLaunching:" :> "did_finish_launching")
    @@ ("applicationDidChangeScreenParameter:" :> "did_change_screen_parameter")
    @@ ("applicationWillTerminate:" :> "will_terminate")
    @@ ("validateUserInterfaceItem:" :> "validate_ui")
    @@ ("shellClearHistory:" :> "record_command")
    @@ ("shellToggleOptionDarkTheme:" :> "record_command")

DelegateIvars == {"event_queue", "state"}

\* a faulty variant of register: a class of that name already in the
\* registry is declared again
register_again ==
    /\ proc = "alive"
    /\ IF "NSResponder" \notin DOMAIN registry
       THEN /\ proc' = "aborted"
            /\ ret' = [op |-> "register", res |-> "panic"]
            /\ UNCHANGED <<registry, logged>>
       ELSE /\ registry' = (DelegateClass :>
                              [superclass |-> "NSResponder",
                               ivars |-> DelegateIvars,
                               methods |-> DelegateMethods]) @@ registry
            /\ ret' = [op |-> "register", res |-> "()"]
            /\ UNCHANGED proc
    /\ UNCHANGED <<apps, delegate, objs, policy, activated, logged,
                   pushed, drained>>

register ==
    /\ proc = "alive"
    /\ IF "NSResponder" \notin DOMAIN registry \/ DelegateClass \in DOMAIN registry
       THEN \* Class::get(..).unwrap() or ClassDecl::new(..).unwrap() panics
            /\ proc' = "aborted"
            /\ ret' = [op |-> "register", res |-> "panic"]
            /\ UNCHANGED <<registry, logged>>
       ELSE /\ registry' = (DelegateClass :>
                              [superclass |-> "NSResponder",
                               ivars |-> DelegateIvars,
                               methods |-> DelegateMethods]) @@ registry
            /\ ret' = [op |-> "register", res |-> "()"]
            /\ UNCHANGED proc
    /\ UNCHANGED <<apps, delegate, objs, policy, activated, logged,
                   pushed, drained>>

\* ------------------------------------------------------------- handlers
\* the native layer sends sel to the delegate this: the class's method
\* table names the extern fn that runs
Responds(this, sel, imp) ==
    /\ proc = "alive"
    /\ this \in 1..Len(objs)
    /\ DelegateClass \in DOMAIN registry
    /\ sel \in DOMAIN registry[DelegateClass].methods
    /\ registry[DelegateClass].methods[sel] = imp

\* a faulty variant of push: the event is inserted at the head of the Vec
push_front(this, e) ==
    /\ TotalPushed < MaxPushes
    /\ objs' = [objs EXCEPT ![this].event_queue = <<e>> \o @]
    /\ pushed' = [pushed EXCEPT ![this] = Append(@, e)]

\* Vec::push on the delegate's queue
push(this, e) ==
    /\ TotalPushed < MaxPushes
    /\ objs' = [objs EXCEPT ![this].event_queue = Append(@, e)]
    /\ pushed' = [pushed EXCEPT ![this] = Append(@, e)]

did_finish_launching(this) ==
    /\ push(this, DidFinishLaunching)
    /\ ret' = [op |-> "did_finish_launching", this |-> this, res |-> "()"]
    /\ UNCHANGED <<proc, registry, apps, delegate, policy, activated, logged,
                   drained>>

did_change_screen_parameter(this) ==
    /\ push(this, DidChangeScreenParameters)
    /\ ret' = [op |-> "did_change_screen_parameter", this |-> this, res |-> "()"]
    /\ UNCHANGED <<proc, registry, apps, delegate, policy, activated, logged,
                   drained>>

will_terminate(this) ==
    /\ push(this, WillTerminate)
    /\ ret' = [op |-> "will_terminate", this |-> this, res |-> "()"]
    /\ UNCHANGED <<proc, registry, apps, delegate, policy, activated, logged,
                   drained>>

\* a faulty variant of validate_ui: an unknown action is answered, not refused
validate_ui_result_lenient(action) ==
    IF action = "shellClearHistory:" THEN YES
    ELSE IF action = "shellToggleOptionDarkTheme:" THEN YES
    ELSE YES

\* what validate_ui answers for an item whose action is `action`
validate_ui_result(action) ==
    IF action = "shellClearHistory:" THEN YES
    ELSE IF action = "shellToggleOptionDarkTheme:" THEN YES
    ELSE "panic"

validate_ui(this, action) ==
    /\ ret' = [op |-> "validate_ui", this |-> this, action |-> action,
               res |-> validate_ui_result(action)]
    /\ proc' = IF validate_ui_result(action) = "panic" THEN "aborted" ELSE proc
    /\ UNCHANGED <<registry, apps, delegate, objs, policy, activated, logged,
                   pushed, drained>>

\* a faulty variant of record_command: the two commands are exchanged
record_command_cmd_swapped(action) ==
    IF action = "shellClearHistory:" THEN ToggleOptionDarkTheme
    ELSE IF action = "shellToggleOptionDarkTheme:" THEN ClearHistory
    ELSE "panic"

\* a faulty variant of record_command: an unknown action falls back to a command
record_command_cmd_default(action) ==
    IF action = "shellClearHistory:" THEN ClearHistory
    ELSE IF action = "shellToggleOptionDarkTheme:" THEN ToggleOptionDarkTheme
    ELSE ClearHistory

\* the command record_command computes for an item whose action is `action`
record_command_cmd(action) ==
    IF action = "shellClearHistory:" THEN ClearHistory
    ELSE IF action = "shellToggleOptionDarkTheme:" THEN ToggleOptionDarkTheme
    ELSE "panic"

record_command(this, action) ==
    LET cmd == record_command_cmd(action) IN
    IF cmd = "panic"
    THEN /\ proc' = "aborted"
         /\ ret' = [op |-> "record_command", this |-> this, action |-> action,
                    res |-> "panic"]
         /\ UNCHANGED <<registry, apps, delegate, objs, policy, activated,
                        logged, pushed, drained>>
    ELSE /\ push(this, DoCommand(cmd))
         /\ ret' = [op |-> "record_command", this |-> this, action |-> action,
                    res |-> "()"]
         /\ UNCHANGED <<proc, registry, apps, delegate, policy, activated,
                        logged, drained>>

\* ------------------------------------------------------------------ App
\* a faulty variant of find: only the first instance of the file is looked at
find_first_only(instances, name) ==
    IF Len(instances) > 0 /\ id_is_instance_of(instances, 1, name)
    THEN Some(1) ELSE None

\* a faulty variant of find: the search runs from the back of the file
find_from_back(instances, name) ==
    LET hits == {k \in 1..Len(instances) : id_is_instance_of(instances, k, name)}
    IN  IF hits = {} THEN None
        ELSE Some(CHOOSE k \in hits : \A j \in hits : j <= k)

\* instances.into_iter().find(|i| id_is_instance_of(*i, name)): the position
\* of the first instance of the class, or None
find(instances, name) ==
    LET hits == {k \in 1..Len(instances) : id_is_instance_of(instances, k, name)}
    IN  IF hits = {} THEN None
        ELSE Some(CHOOSE k \in hits : \A j \in hits : k <= j)

AppStateInit == [current_window_index |-> None,
                 window_states |-> <<>>,
                 dark_theme |-> FALSE]

ErrNoApplication == "Couldn't not find NSApplication instance in nib file"

\* a faulty variant of load: the application is activated before its instance is looked
\* up, so a bundle without one has been activated when load fails
load_activates_first(nib) ==
    /\ proc = "alive"
    /\ IF ~nib.ok
       THEN /\ ret' = [op |-> "load", res |-> Err(nib.err)]
            /\ UNCHANGED <<proc, apps, delegate, objs, policy, activated,
                           pushed, drained>>
       ELSE LET hit == find(nib.val, "NSApplication")
                nsapp == hit[1]
            IN
            IF hit = None
            THEN /\ ret' = [op |-> "load", res |-> Err(ErrNoApplication)]
                 /\ policy' = policy
                 /\ activated' = TRUE
                 /\ UNCHANGED <<proc, apps, delegate, objs, pushed, drained>>
            ELSE /\ policy' = policy + 1
                 /\ activated' = TRUE
                 /\ IF DelegateClass \notin DOMAIN registry
                    THEN \* class(..) is nil, so is the delegate: set_ivar
                         \* finds no ivar on it and panics
                         /\ proc' = "aborted"
                         /\ ret' = [op |-> "load", res |-> Panicked]
                         /\ UNCHANGED <<apps, delegate, objs, pushed, drained>>
                    ELSE \* one controller per process: the application
                         \* bundle is loaded once for the whole application
                         /\ apps = <<>>
                         /\ objs' = Append(objs, [event_queue |-> <<>>,
                                                  state |-> AppStateInit])
                         /\ delegate' = Append(delegate, Len(objs) + 1)
                         /\ apps' = Append(apps, [nsapp |-> nsapp])
                         /\ pushed' = Append(pushed, <<>>)
                         /\ drained' = Append(drained, <<>>)
                         /\ ret' = [op |-> "load",
                                    res |-> Ok([nsapp |-> nsapp])]
                         /\ UNCHANGED proc
    /\ UNCHANGED <<registry, logged>>

\* load(), nib being what utils::load_nib("App.nib") returned
load(nib) ==
    /\ proc = "alive"
    /\ IF ~nib.ok
       THEN /\ ret' = [op |-> "load", res |-> Err(nib.err)]
            /\ UNCHANGED <<proc, apps, delegate, objs, policy, activated,
                           pushed, drained>>
       ELSE LET hit == find(nib.val, "NSApplication")
                nsapp == hit[1]
            IN
            IF hit = None
            THEN /\ ret' = [op |-> "load", res |-> Err(ErrNoApplication)]
                 /\ UNCHANGED <<proc, apps, delegate, objs, policy, activated,
                                pushed, drained>>
            ELSE /\ policy' = policy + 1
                 /\ activated' = TRUE
                 /\ IF DelegateClass \notin DOMAIN registry
                    THEN \* class(..) is nil, so is the delegate: set_ivar
                         \* finds no ivar on it and panics
                         /\ proc' = "aborted"
                         /\ ret' = [op |-> "load", res |-> Panicked]
                         /\ UNCHANGED <<apps, delegate, objs, pushed, drained>>
                    ELSE \* one controller per process: the application
                         \* bundle is loaded once for the whole application
                         /\ apps = <<>>
                         /\ objs' = Append(objs, [event_queue |-> <<>>,
                                                  state |-> AppStateInit])
                         /\ delegate' = Append(delegate, Len(objs) + 1)
                         /\ apps' = Append(apps, [nsapp |-> nsapp])
                         /\ pushed' = Append(pushed, <<>>)
                         /\ drained' = Append(drained, <<>>)
                         /\ ret' = [op |-> "load",
                                    res |-> Ok([nsapp |-> nsapp])]
                         /\ UNCHANGED proc
    /\ UNCHANGED <<registry, logged>>

state_changed(a) ==
    /\ proc = "alive"
    /\ a \in 1..Len(apps)
    /\ ret' = [op |-> "state_changed", app |-> a, res |-> "()"]
    /\ UNCHANGED <<proc, registry, apps, delegate, objs, policy, activated, logged,
                   pushed, drained>>

Reverse(q) == [i \in 1..Len(q) |-> q[Len(q) + 1 - i]]

\* a faulty variant of drain: the events are collected from the back of the Vec
drain_reversed(queue) == [collected |-> Reverse(queue), left |-> <<>>]

\* a faulty variant of drain: the last event is removed but not collected
drain_loses_last(queue) ==
    [collected |-> IF queue = <<>> THEN <<>> ELSE SubSeq(queue, 1, Len(queue) - 1),
     left |-> <<>>]

\* Vec::drain(..).collect(): what is collected, and what is left in the Vec
drain(queue) == [collected |-> queue, left |-> <<>>]

\* a faulty variant of get_events: it waits until the queue holds an event
get_events_waiting(a) ==
    /\ proc = "alive"
    /\ a \in 1..Len(apps)
    /\ get_event_queue(delegate[a]) # <<>>
    /\ LET nsobject == delegate[a]
           d == [collected |-> get_event_queue(nsobject), left |-> <<>>]
       IN  /\ objs' = [objs EXCEPT ![nsobject].event_queue = d.left]
           /\ ret' = [op |-> "get_events", app |-> a, res |-> d.collected]
           /\ drained' = [drained EXCEPT ![nsobject] = @ \o d.collected]
    /\ UNCHANGED <<proc, registry, apps, delegate, policy, activated, logged,
                   pushed>>

get_events(a) ==
    /\ proc = "alive"
    /\ a \in 1..Len(apps)
    /\ LET nsobject == delegate[a]
           d == drain(get_event_queue(nsobject))
       IN  /\ objs' = [objs EXCEPT ![nsobject].event_queue = d.left]
           /\ ret' = [op |-> "get_events", app |-> a, res |-> d.collected]
           /\ drained' = [drained EXCEPT ![nsobject] = @ \o d.collected]
    /\ UNCHANGED <<proc, registry, apps, delegate, policy, activated, logged,
                   pushed>>

ErrNoWindow == "Couldn't not find NSShellWindow instance in nib file"

ErrNoPopover == "Couldn't not find NSPopover instance in nib file"

\* the for loop of create_native_window: the last instance of the class
\* seen, or None
last_seen(instances, name) ==
    LET hits == {k \in 1..Len(instances) : id_is_instance_of(instances, k, name)}
    IN  IF hits = {} THEN None
        ELSE Some(CHOOSE k \in hits : \A j \in hits : j <= k)

\* a faulty variant of create_native_window: the popover is asked for before the window
create_native_window_popover_first(nib) ==
    IF ~nib.ok THEN Err(nib.err)
    ELSE LET nswindow == last_seen(nib.val, "NSShellWindow")
             nspopover == last_seen(nib.val, "NSPopover")
         IN  IF nspopover = None THEN Err(ErrNoPopover)
             ELSE IF nswindow = None THEN Err(ErrNoWindow)
             ELSE Ok(<<nswindow[1], nspopover[1]>>)

\* a faulty variant of create_native_window: a missing popover is reported
\* with the window's message
create_native_window_one_message(nib) ==
    IF ~nib.ok THEN Err(nib.err)
    ELSE LET nswindow == last_seen(nib.val, "NSShellWindow")
             nspopover == last_seen(nib.val, "NSPopover")
         IN  IF nswindow = None THEN Err(ErrNoWindow)
             ELSE IF nspopover = None THEN Err(ErrNoWindow)
             ELSE Ok(<<nswindow[1], nspopover[1]>>)

\* create_native_window(), nib being what utils::load_nib("Window.nib")
\* returned: the positions of the window and of the popover, or an error
create_native_window(nib) ==
    IF ~nib.ok THEN Err(nib.err)
    ELSE LET nswindow == last_seen(nib.val, "NSShellWindow")
             nspopover == last_seen(nib.val, "NSPopover")
         IN  IF nswindow = None THEN Err(ErrNoWindow)
             ELSE IF nspopover = None THEN Err(ErrNoPopover)
             ELSE Ok(<<nswindow[1], nspopover[1]>>)

create_window(a, nib) ==
    /\ proc = "alive"
    /\ a \in 1..Len(apps)
    /\ logged' = IF nib.ok THEN nib.val ELSE <<>>
    /\ LET w == create_native_window(nib) IN
       IF ~w.ok
       THEN ret' = [op |-> "create_window", app |-> a, res |-> Err(w.err)]
       ELSE \* window::Window::new(nswindow, nspopover)
            ret' = [op |-> "create_window", app |-> a,
                    res |-> Ok([nswindow |-> w.val[1], nspopover |-> w.val[2]])]
    /\ UNCHANGED <<proc, registry, apps, delegate, objs, policy, activated,
                   pushed, drained>>

\* ------------------------------------------------------------------ run
\* an nsevent: its eventType and its subtype; Nil is the nil a dequeue
\* returns when no event is pending
Activated == [type |-> "NSApplicationDefined",
              subtype |-> "NSApplicationActivatedEventType"]

OtherDefined == [type |-> "NSApplicationDefined", subtype |-> "other"]

KeyDown == [type |-> "NSKeyDown", subtype |-> "other"]

Nil == [type |-> "nil", subtype |-> "nil"]

NativeEvent == {Activated, OtherDefined, KeyDown}

\* run() not entered: no iteration, no history
RunInit == [pc |-> "idle", app |-> 0, cur |-> Nil, posted |-> 0,
            first |-> Nil, forwarded |-> "", dequeued |-> <<>>, sent |-> <<>>,
            trail |-> <<>>, calls |-> 0, mark |-> 0, polled |-> FALSE]

\* the window server posts an event to the application
post(e) ==
    /\ proc = "alive"
    /\ rl.posted < MaxNative
    /\ nsqueue' = Append(nsqueue, e)
    /\ rl' = [rl EXCEPT !.posted = @ + 1]
    /\ UNCHANGED <<proc, registry, apps, delegate, objs, policy, activated,
                   logged, ret, pushed, drained>>

\* run(callback) is entered: finishLaunching is sent to the nsapp
run(a) ==
    /\ proc = "alive"
    /\ a \in 1..Len(apps)
    /\ rl.pc = "idle"
    /\ rl' = [rl EXCEPT !.pc = "finishLaunching", !.app = a]
    /\ UNCHANGED <<proc, registry, apps, delegate, objs, policy, activated,
                   logged, ret, pushed, drained, nsqueue>>

\* finishLaunching returns; the loop starts
finish_launching_returns ==
    /\ proc = "alive"
    /\ rl.pc = "finishLaunching"
    /\ rl' = [rl EXCEPT !.pc = "wait"]
    /\ UNCHANGED <<proc, registry, apps, delegate, objs, policy, activated,
                   logged, ret, pushed, drained, nsqueue>>

\* nextEventMatchingMask until distantFuture, dequeue YES: blocks until an
\* event is pending, and takes it; an iteration begins
next_event_blocking ==
    /\ proc = "alive"
    /\ rl.pc = "wait"
    /\ nsqueue # <<>>
    /\ nsqueue' = Tail(nsqueue)
    /\ rl' = [rl EXCEPT !.pc = "dispatch", !.cur = Head(nsqueue),
                        !.first = Head(nsqueue), !.forwarded = "",
                        !.dequeued = <<>>, !.sent = <<>>,
                        !.trail = <<"wait">>, !.calls = 0,
                        !.mark = Len(pushed[delegate[rl.app]]),
                        !.polled = FALSE]
    /\ UNCHANGED <<proc, registry, apps, delegate, objs, policy, activated,
                   logged, ret, pushed, drained>>

\* where the if of lines 152-160 sends the event of the blocking wait:
\* "eventLoopRised" (to its window), "sendEvent", or "" (nowhere)
forward_first(nsevent) ==
    IF nsevent.type = "NSApplicationDefined"
    THEN IF nsevent.subtype = "NSApplicationActivatedEventType"
         THEN "eventLoopRised"
         ELSE ""
    ELSE "sendEvent"

\* lines 151-160
dispatch_first ==
    /\ proc = "alive"
    /\ rl.pc = "dispatch"
    /\ rl' = [rl EXCEPT !.forwarded = forward_first(rl.cur),
                        !.pc = IF forward_first(rl.cur) = "sendEvent"
                               THEN "sendEvent_first" ELSE "drain"]
    /\ UNCHANGED <<proc, registry, apps, delegate, objs, policy, activated,
                   logged, ret, pushed, drained, nsqueue>>

\* sendEvent of line 159 returns
send_first_returns ==
    /\ proc = "alive"
    /\ rl.pc = "sendEvent_first"
    /\ rl' = [rl EXCEPT !.pc = "drain"]
    /\ UNCHANGED <<proc, registry, apps, delegate, objs, policy, activated,
                   logged, ret, pushed, drained, nsqueue>>

\* nextEventMatchingMask until distantPast, dequeue YES: the pending event,
\* or Nil, without waiting
next_event_now(queue) == IF queue = <<>> THEN Nil ELSE Head(queue)

\* lines 164-167: dequeue without waiting, and sendEvent what came
drain_pending ==
    /\ proc = "alive"
    /\ rl.pc = "drain"
    /\ LET nsevent == next_event_now(nsqueue) IN
       /\ nsqueue' = IF nsqueue = <<>> THEN nsqueue ELSE Tail(nsqueue)
       /\ rl' = [rl EXCEPT !.pc = "sendEvent_pending", !.cur = nsevent,
                           !.dequeued = Append(@, nsevent),
                           !.sent = Append(@, nsevent)]
    /\ UNCHANGED <<proc, registry, apps, delegate, objs, policy, activated,
                   logged, ret, pushed, drained>>

\* sendEvent of line 167 returns; lines 168-170: leave the inner loop on
\* nil, else dequeue again
send_pending_returns ==
    /\ proc = "alive"
    /\ rl.pc = "sendEvent_pending"
    /\ rl' = IF rl.cur = Nil
             THEN [rl EXCEPT !.pc = "updateWindows",
                             !.trail = Append(@, "drained")]
             ELSE [rl EXCEPT !.pc = "drain"]
    /\ UNCHANGED <<proc, registry, apps, delegate, objs, policy, activated,
                   logged, ret, pushed, drained, nsqueue>>

\* a faulty variant of update_windows: the iteration ends without callback()
update_windows_no_callback ==
    /\ proc = "alive"
    /\ rl.pc = "updateWindows"
    /\ rl' = [rl EXCEPT !.pc = "wait", !.trail = Append(@, "updateWindows")]
    /\ UNCHANGED <<proc, registry, apps, delegate, objs, policy, activated,
                   logged, ret, pushed, drained, nsqueue>>

\* lines 173-176: updateWindows, the pool is released, callback() is called
update_windows ==
    /\ proc = "alive"
    /\ rl.pc = "updateWindows"
    /\ rl' = [rl EXCEPT !.pc = "callback", !.calls = @ + 1,
                        !.trail = @ \o <<"updateWindows", "callback">>]
    /\ UNCHANGED <<proc, registry, apps, delegate, objs, policy, activated,
                   logged, ret, pushed, drained, nsqueue>>

\* the callback calls get_events() on the controller
callback_get_events ==
    /\ rl.pc = "callback"
    /\ get_events(rl.app)
    /\ rl' = [rl EXCEPT !.polled = TRUE]
    /\ UNCHANGED nsqueue

\* a faulty variant of callback_returns: run() returns once WillTerminate
\* has been handed to the caller
callback_returns_on_terminate ==
    /\ proc = "alive"
    /\ rl.pc = "callback"
    /\ rl' = [rl EXCEPT !.pc =
                 IF \E i \in 1..Len(drained[delegate[rl.app]]) :
                        drained[delegate[rl.app]][i] = WillTerminate
                 THEN "returned" ELSE "wait"]
    /\ UNCHANGED <<proc, registry, apps, delegate, objs, policy, activated,
                   logged, ret, pushed, drained, nsqueue>>

\* a faulty variant of callback_returns: callback() sits inside the inner
\* loop, so sendEvent goes on after it
callback_returns_to_drain ==
    /\ proc = "alive"
    /\ rl.pc = "callback"
    /\ rl' = [rl EXCEPT !.pc = IF nsqueue # <<>> THEN "drain" ELSE "wait"]
    /\ UNCHANGED <<proc, registry, apps, delegate, objs, policy, activated,
                   logged, ret, pushed, drained, nsqueue>>

\* callback() returns: line 177, back to the top of the loop
callback_returns ==
    /\ proc = "alive"
    /\ rl.pc = "callback"
    /\ rl' = [rl EXCEPT !.pc = "wait"]
    /\ UNCHANGED <<proc, registry, apps, delegate, objs, policy, activated,
                   logged, ret, pushed, drained, nsqueue>>

\* the nsapp is inside finishLaunching, or inside sendEvent with an event:
\* the native layer calls the delegate from there
InNativeDispatch ==
    \/ rl.pc = "finishLaunching"
    \/ rl.pc \in {"sendEvent_first", "sendEvent_pending"} /\ rl.cur # Nil

\* -------------------------------------------------------- specification
Init ==
    /\ proc = "alive"
    /\ registry = ("NSResponder" :> [superclass |-> "NSObject",
                                     ivars |-> {},
                                     methods |-> <<>>])
    /\ apps = <<>>
    /\ delegate = <<>>
    /\ objs = <<>>
    /\ policy = 0
    /\ activated = FALSE
    /\ logged = <<>>
    /\ ret = [op |-> "start", res |-> "()"]
    /\ pushed = <<>>
    /\ drained = <<>>
    /\ nsqueue = <<>>
    /\ rl = RunInit

\* the native layer delivers a notification, a validation request or a
\* menu command to a delegate
Deliver ==
    \/ \E this \in 1..Len(objs), sel \in DOMAIN DelegateMethods :
          /\ Responds(this, sel, "did_finish_launching")
          /\ did_finish_launching(this)
    \/ \E this \in 1..Len(objs), sel \in DOMAIN DelegateMethods :
          /\ Responds(this, sel, "did_change_screen_parameter")
          /\ did_change_screen_parameter(this)
    \/ \E this \in 1..Len(objs), sel \in DOMAIN DelegateMethods :
          /\ Responds(this, sel, "will_terminate")
          /\ will_terminate(this)
    \/ \E this \in 1..Len(objs), sel \in DOMAIN DelegateMethods,
          action \in ActionSelectors :
          /\ Responds(this, sel, "validate_ui")
          /\ validate_ui(this, action)
    \/ \E this \in 1..Len(objs), sel \in DOMAIN DelegateMethods,
          action \in ActionSelectors :
          /\ Responds(this, sel, "record_command")
          /\ record_command(this, action)

\* the delegate, the controller and its event queue
Next ==
    /\ \/ register
       \/ \E nib \in load_nib("App.nib") : load(nib)
       \/ \E a \in 1..Len(apps) : state_changed(a)
       \/ \E a \in 1..Len(apps) : get_events(a)
       \/ Deliver
    /\ UNCHANGED runvars

Spec == Init /\ [][Next]_vars

\* the window factory, beside a controller whose queue fills
NextWindow ==
    /\ \/ register
       \/ \E nib \in load_nib("App.nib") : load(nib)
       \/ \E a \in 1..Len(apps), nib \in load_nib("Window.nib") :
             create_window(a, nib)
       \/ \E this \in 1..Len(objs), sel \in DOMAIN DelegateMethods :
             /\ Responds(this, sel, "did_finish_launching")
             /\ did_finish_launching(this)
    /\ UNCHANGED runvars

SpecWindow == Init /\ [][NextWindow]_vars

\* run() on a loaded controller: the native layer posts events and calls
\* the delegate from finishLaunching and sendEvent
NextRun ==
    \/ /\ rl.pc = "idle"
       /\ register \/ \E nib \in {Ok(<<"NSApplication">>)} : load(nib)
       /\ UNCHANGED runvars
    \/ \E a \in 1..Len(apps) : run(a)
    \/ \E e \in NativeEvent : post(e)
    \/ finish_launching_returns
    \/ next_event_blocking
    \/ dispatch_first
    \/ send_first_returns
    \/ drain_pending
    \/ send_pending_returns
    \/ update_windows
    \/ callback_get_events
    \/ callback_returns
    \/ /\ InNativeDispatch
       /\ \E this \in {delegate[rl.app]}, sel \in DOMAIN DelegateMethods :
             \/ /\ Responds(this, sel, "did_finish_launching")
                /\ did_finish_launching(this)
             \/ /\ Responds(this, sel, "will_terminate")
                /\ will_terminate(this)
       /\ UNCHANGED runvars

SpecRun == Init /\ [][NextRun]_vars

\* ---------------------------------------------------------------- claims
\* the events delegate d received since the last get_events() on it
Pending(d) == SubSeq(pushed[d], Len(drained[d]) + 1, Len(pushed[d]))

\* C1: a get_events() call returns exactly the events pushed since the
\* previous drain (all N of them when there was none), in the order they
\* were pushed, and a get_events() call that directly follows a
\* get_events() call returns the empty sequence.
C1_DrainReturnsPushedInOrder ==
    [][\A a \in 1..Len(apps) :
          ret'.op = "get_events" /\ ret'.app = a
          => /\ ret'.res = Pending(delegate[a])
             /\ drained[delegate[a]] = <<>> => ret'.res = pushed[delegate[a]]
             /\ ret.op = "get_events" => ret'.res = <<>>]_vars

\* C1 happens: one get_events() returned MaxPushes events, not all equal
C1_Witness ==
    /\ ret.op = "get_events"
    /\ Len(ret.res) = MaxPushes
    /\ ret.res[1] # ret.res[Len(ret.res)]
    /\ get_event_queue(delegate[ret.app]) = <<>>

\* C2: for every delegate, the get_events() results so far, concatenated,
\* followed by what its queue holds, are the events pushed so far: nothing
\* is lost, duplicated or reordered.
C2_NoEventLostDuplicatedReordered ==
    \A d \in 1..Len(objs) : drained[d] \o get_event_queue(d) = pushed[d]

\* C2 happens: events were pushed before and after a get_events() call
C2_Witness ==
    /\ Len(objs) = 1
    /\ drained[1] # <<>>
    /\ get_event_queue(1) # <<>>
    /\ Len(pushed[1]) = MaxPushes

\* C3: while the process runs, get_events() on a loaded controller is
\* enabled, whatever the queue holds; called on an empty queue it returns
\* the empty sequence and leaves the queue empty.
C3_GetEventsNeverBlocks ==
    /\ [](\A a \in 1..Len(apps) : proc = "alive" => ENABLED get_events(a))
    /\ [][\A a \in 1..Len(apps) :
             /\ get_event_queue(delegate[a]) = <<>>
             /\ ret'.op = "get_events" /\ ret'.app = a
             => /\ ret'.res = <<>>
                /\ objs'[delegate'[a]].event_queue = <<>>]_vars

\* C3 happens: get_events() returned from a controller that never had an
\* event
C3_Witness ==
    /\ ret.op = "get_events"
    /\ ret.res = <<>>
    /\ pushed[delegate[ret.app]] = <<>>
    /\ proc = "alive"

\* the step changes the queue of `this` by appending e, and nothing else of
\* the program
AppendsOnly(this, e) ==
    /\ objs' = [objs EXCEPT ![this].event_queue = Append(@, e)]
    /\ UNCHANGED <<proc, registry, apps, delegate, policy, activated, logged>>

\* C4: each lifecycle handler appends its own event to the tail of the
\* queue of the delegate it runs on and changes nothing else; a
\* get_events() that follows a load() and one 'did finish launching'
\* returns [DidFinishLaunching].
C4_LifecycleHandlersAppendOneEvent ==
    [][/\ \A this \in 1..Len(objs) :
             /\ ret'.op = "did_finish_launching" /\ ret'.this = this
                => AppendsOnly(this, DidFinishLaunching)
             /\ ret'.op = "did_change_screen_parameter" /\ ret'.this = this
                => AppendsOnly(this, DidChangeScreenParameters)
             /\ ret'.op = "will_terminate" /\ ret'.this = this
                => AppendsOnly(this, WillTerminate)
       /\ \A a \in 1..Len(apps) :
             /\ pushed[delegate[a]] = <<DidFinishLaunching>>
             /\ drained[delegate[a]] = <<>>
             /\ ret'.op = "get_events" /\ ret'.app = a
             => ret'.res = <<DidFinishLaunching>>]_vars

\* C4 happens: load(), one 'did finish launching', then get_events()
C4_Witness ==
    /\ ret.op = "get_events"
    /\ ret.res = <<DidFinishLaunching>>
    /\ pushed[delegate[ret.app]] = <<DidFinishLaunching>>

HasInstance(instances, name) == \E k \in 1..Len(instances) : instances[k] = name

C6_LoadFailsWithoutSideEffects ==
    [][ret'.op = "load"
       => \A nib \in load_nib("App.nib") :
             /\ ~nib.ok \/ ~HasInstance(nib.val, "NSApplication")
             /\ load(nib)
             => /\ ret'.res = Err(IF nib.ok THEN ErrNoApplication ELSE nib.err)
                /\ UNCHANGED <<proc, registry, apps, delegate, objs, policy,
                               activated>>]_vars

\* C6 happens: load() failed on a bundle without an NSApplication instance
C6_Witness ==
    /\ ret.op = "load"
    /\ proc = "alive"
    /\ ret.res = Err(ErrNoApplication)
    /\ apps = <<>>
    /\ objs = <<>>
    /\ policy = 0
    /\ ~activated

\* the action identifiers the handlers know
Recognized == {"shellClearHistory:", "shellToggleOptionDarkTheme:"}

\* C7: validate_ui answers YES for the two identifiers it knows, whatever
\* the state, and panics for any other; it never changes an event queue.
C7_ValidateUiYesOrPanic ==
    [][ret'.op = "validate_ui"
       => /\ ret'.action \in Recognized
             => ret'.res = YES /\ proc' = "alive"
          /\ ret'.action \notin Recognized
             => ret'.res = "panic" /\ proc' = "aborted"
          /\ UNCHANGED <<objs, pushed, drained>>]_vars

\* C7 happens: validate_ui panicked on an unknown identifier, events pending
C7_Witness ==
    /\ ret.op = "validate_ui"
    /\ ret.action \notin Recognized
    /\ proc = "aborted"
    /\ get_event_queue(ret.this) # <<>>

\* C8: both command selectors of the delegate class run record_command,
\* which appends one DoCommand to the tail of the queue: ClearHistory for
\* shellClearHistory:, ToggleOptionDarkTheme for shellToggleOptionDarkTheme:.
C8_RecordCommandAppendsDoCommand ==
    /\ [](DelegateClass \in DOMAIN registry
          => \A sel \in Recognized :
                /\ sel \in DOMAIN registry[DelegateClass].methods
                /\ registry[DelegateClass].methods[sel] = "record_command")
    /\ [][\A this \in 1..Len(objs) :
             /\ ret'.op = "record_command" /\ ret'.this = this
             /\ ret'.action \in Recognized
             => AppendsOnly(this, DoCommand(
                   IF ret'.action = "shellClearHistory:" THEN ClearHistory
                   ELSE ToggleOptionDarkTheme))]_vars

\* C8 happens: record_command ran for each of the two identifiers
C8_Witness ==
    /\ ret.op = "record_command"
    /\ ret.action = "shellToggleOptionDarkTheme:"
    /\ get_event_queue(ret.this) =
           <<DoCommand(ClearHistory), DoCommand(ToggleOptionDarkTheme)>>

DoCommandsKnown(events) ==
    \A i \in 1..Len(events) :
       events[i][1] = "DoCommand" => events[i][2] \in AppCommand

\* C9: every DoCommand in a queue or in a get_events() result carries one of
\* the two commands; a DoCommand enters a queue only in a record_command
\* call for an identifier it knows; record_command panics on any other
\* identifier and leaves the queues as they were.
C9_DoCommandOnlyFromRecognized ==
    /\ [](/\ \A d \in 1..Len(objs) : DoCommandsKnown(get_event_queue(d))
          /\ ret.op = "get_events" => DoCommandsKnown(ret.res))
    /\ [][/\ ret'.op = "record_command" /\ ret'.action \notin Recognized
             => /\ proc' = "aborted"
                /\ ret'.res = "panic"
                /\ UNCHANGED <<objs, pushed, drained>>
          /\ \A d \in 1..Len(objs) :
                /\ Len(pushed'[d]) > Len(pushed[d])
                /\ pushed'[d][Len(pushed'[d])][1] = "DoCommand"
                => /\ ret'.op = "record_command"
                   /\ ret'.action \in Recognized]_vars

\* C9 happens: record_command panicked on an unknown identifier with a
\* DoCommand in the queue
C9_Witness ==
    /\ ret.op = "record_command"
    /\ ret.action \notin Recognized
    /\ proc = "aborted"
    /\ \E i \in 1..Len(get_event_queue(ret.this)) :
          get_event_queue(ret.this)[i][1] = "DoCommand"

\* C10: create_window() on a loaded Window bundle without an NSShellWindow
\* instance returns the window-not-found error, with or without a popover
\* in the bundle, and changes nothing of the registry, the controller, its
\* delegate or the event queue.
C10_NoWindowInstanceFails ==
    [][\A a \in 1..Len(apps) :
          /\ ret'.op = "create_window" /\ ret'.app = a
          /\ create_window(a, Ok(logged'))
          /\ ~HasInstance(logged', "NSShellWindow")
          => /\ ret'.res = Err(ErrNoWindow)
             /\ UNCHANGED <<proc, registry, apps, delegate, objs, policy,
                            activated, pushed, drained>>]_vars

\* C10 happens: create_window() failed on a bundle that holds a popover and
\* no window, while an event was queued
C10_Witness ==
    /\ ret.op = "create_window"
    /\ ret.res = Err(ErrNoWindow)
    /\ HasInstance(logged, "NSPopover")
    /\ get_event_queue(delegate[ret.app]) # <<>>

\* C11: create_window() returns a window wrapper exactly when the bundle
\* loaded and holds an NSShellWindow instance and an NSPopover instance,
\* and the wrapper then holds one of each; with a window and no popover it
\* returns the popover-not-found error; a failed call returns no wrapper.
C11_WindowIffWindowAndPopover ==
    [][ret'.op = "create_window"
       => /\ ret'.res.ok <=> /\ HasInstance(logged', "NSShellWindow")
                              /\ HasInstance(logged', "NSPopover")
          /\ ret'.res.ok
             => /\ logged'[ret'.res.val.nswindow] = "NSShellWindow"
                /\ logged'[ret'.res.val.nspopover] = "NSPopover"
          /\ /\ HasInstance(logged', "NSShellWindow")
             /\ ~HasInstance(logged', "NSPopover")
             => ret'.res = Err(ErrNoPopover)
          /\ ~ret'.res.ok => DOMAIN ret'.res = {"ok", "err"}]_vars

\* C11 happens: create_window() returned a wrapper for a bundle that also
\* holds an instance of another class
C11_Witness ==
    /\ ret.op = "create_window"
    /\ ret.res.ok
    /\ HasInstance(logged, "NSView")
    /\ logged[ret.res.val.nswindow] = "NSShellWindow"
    /\ logged[ret.res.val.nspopover] = "NSPopover"

\* the first, and the last, instance of the class in the file
FirstOf(instances, name) ==
    CHOOSE k \in 1..Len(instances) :
       instances[k] = name /\ \A j \in 1..(k - 1) : instances[j] # name

LastOf(instances, name) ==
    CHOOSE k \in 1..Len(instances) :
       instances[k] = name /\ \A j \in (k + 1)..Len(instances) : instances[j] # name

\* the controller load() returns for a bundle holds the first NSApplication
\* instance of the bundle
LoadTakesFirst ==
    ret'.op = "load" /\ apps = <<>>
    => \A nib \in load_nib("App.nib") :
          nib.ok /\ load(nib) /\ ret'.res.ok
          => ret'.res.val.nsapp = FirstOf(nib.val, "NSApplication")

\* C15 as stated: load() takes the first NSApplication instance of its
\* bundle, and create_window() the first NSShellWindow instance and the
\* first NSPopover instance of its bundle.
C15_FirstMatchTaken ==
    [][/\ LoadTakesFirst
       /\ ret'.op = "create_window" /\ ret'.res.ok
          => /\ ret'.res.val.nswindow = FirstOf(logged', "NSShellWindow")
             /\ ret'.res.val.nspopover = FirstOf(logged', "NSPopover")]_vars

\* C15 amended: load() takes the first NSApplication instance of its
\* bundle; create_window() takes the last NSShellWindow instance and the
\* last NSPopover instance of its bundle.
C15_LoadFirstWindowLast ==
    [][/\ LoadTakesFirst
       /\ ret'.op = "create_window" /\ ret'.res.ok
          => /\ ret'.res.val.nswindow = LastOf(logged', "NSShellWindow")
             /\ ret'.res.val.nspopover = LastOf(logged', "NSPopover")]_vars

\* C15 happens: create_window() returned a wrapper for a bundle with two
\* windows, on a controller whose bundle held its NSApplication second
C15_Witness ==
    /\ ret.op = "create_window"
    /\ ret.res.ok
    /\ FirstOf(logged, "NSShellWindow") # LastOf(logged, "NSShellWindow")
    /\ apps[ret.app].nsapp > 1

\* C18: a register() call in a process without the delegate class enters
\* it in the registry, with its two ivars and six methods; a register()
\* call in a process that has the class panics and leaves the registry as
\* it was, so the class is entered once at most.
C18_RegisterOnce ==
    [][ret'.op = "register"
       => IF DelegateClass \in DOMAIN registry
          THEN /\ proc' = "aborted"
               /\ ret'.res = "panic"
               /\ registry' = registry
          ELSE /\ proc' = "alive"
               /\ DOMAIN registry' = DOMAIN registry \cup {DelegateClass}
               /\ \A c \in DOMAIN registry : registry'[c] = registry[c]
               /\ registry'[DelegateClass].ivars = {"event_queue", "state"}
               /\ Cardinality(DOMAIN registry'[DelegateClass].methods) = 6]_vars

\* C18 happens: a second register() call panicked, after a controller was
\* loaded with the class of the first
C18_Witness ==
    /\ ret.op = "register"
    /\ ret.res = "panic"
    /\ proc = "aborted"
    /\ DelegateClass \in DOMAIN registry
    /\ Len(apps) = 1

\* the events the handlers pushed since the blocking wait of the iteration
\* under way returned
IterPushed ==
    SubSeq(pushed[delegate[rl.app]], rl.mark + 1,
           Len(pushed[delegate[rl.app]]))

IsSuffix(s, t) ==
    /\ Len(s) <= Len(t)
    /\ SubSeq(t, Len(t) - Len(s) + 1, Len(t)) = s

\* C12: every outer iteration of run() calls the callback exactly once, and
\* the call comes after the iteration's blocking wait, after its drain and
\* after its updateWindows; the callback is never called while the loop is
\* waiting for a first native event.
C12_CallbackOncePerIteration ==
    [][/\ rl'.calls > rl.calls
          => /\ rl.pc = "updateWindows"
             /\ rl'.calls = 1
             /\ rl'.trail = <<"wait", "drained", "updateWindows", "callback">>
       /\ rl'.pc = "callback" /\ rl.pc # "callback" => rl'.calls > rl.calls
       /\ rl.pc = "wait" => rl'.pc # "callback" /\ rl'.calls <= rl.calls
       /\ rl'.pc = "wait" /\ rl.pc \notin {"wait", "finishLaunching"}
          => rl.calls = 1]_vars

C12_Witness ==
    /\ rl.pc = "wait"
    /\ rl.calls = 1
    /\ rl.trail = <<"wait", "drained", "updateWindows", "callback">>
    /\ Len(rl.dequeued) >= 2
    /\ nsqueue # <<>>

\* C13: the event the blocking wait of an iteration delivered is always
\* forwarded: to its window (eventLoopRised) if it is application-defined
\* with the activated subtype, to sendEvent in every other case, an
\* application-defined event of another subtype included; none is dropped.
C13_FirstEventForwarded ==
    rl.pc \in {"sendEvent_first", "drain", "sendEvent_pending",
               "updateWindows", "callback"}
    => rl.forwarded = IF rl.first = Activated THEN "eventLoopRised"
                      ELSE "sendEvent"

\* C14: in the drain of an iteration sendEvent is called exactly once for
\* each pending event dequeued, in dequeue order, and for nothing else:
\* never with the nil of an empty dequeue; the drain ends, without
\* blocking, at the first empty dequeue.
C14_SendEventPerPendingEvent ==
    /\ rl.sent = SelectSeq(rl.dequeued, LAMBDA e : e # Nil)
    /\ \A i \in 1..Len(rl.dequeued) :
          rl.dequeued[i] = Nil => i = Len(rl.dequeued)

\* C16: once run() is entered it never returns and the controller stays
\* running: not after WillTerminate was pushed or handed to the caller,
\* not after any callback or queued event.
C16_RunNeverReturns ==
    [][rl.pc # "idle"
       => /\ rl'.pc \notin {"idle", "returned"}
          /\ rl'.app = rl.app
          /\ Len(apps') = Len(apps)]_vars

C16_Witness ==
    /\ rl.pc = "dispatch"
    /\ \E i \in 1..Len(drained[delegate[rl.app]]) :
          drained[delegate[rl.app]][i] = WillTerminate
    /\ ret.op = "get_events"

\* C17: an event a handler pushes while run() dispatches native events in
\* an iteration (first event or drain) is in the queue when the callback
\* of that iteration runs, a get_events() in that callback returns it, and
\* none is left in the queue when the loop blocks again after a callback
\* that called get_events().
C17_PushedBeforeCallback ==
    /\ [](rl.pc = "callback" /\ ~rl.polled
          => IsSuffix(IterPushed, get_event_queue(delegate[rl.app])))
    /\ [][rl.pc = "callback" /\ ~rl.polled /\ ret'.op = "get_events"
          /\ rl'.polled
          => IsSuffix(IterPushed, ret'.res)]_vars
    /\ [](rl.pc = "wait" /\ rl.polled
          => get_event_queue(delegate[rl.app]) = <<>>)

C17_Witness ==
    /\ rl.pc = "callback"
    /\ rl.polled
    /\ ret.op = "get_events"
    /\ Len(IterPushed) >= 2
    /\ IsSuffix(IterPushed, ret.res)
    /\ rl.forwarded = "sendEvent"
    /\ Len(rl.sent) >= 2

=============================================================================
